---- MODULE Spec2Model ----
(***************************************************************************)
(* mongo-sanitizer: the sanitization engine (_sanitize, sanitize, has) and *)
(* the Express middleware (expressSanitize) built on it.                   *)
(*                                                                         *)
(* JavaScript values are records tagged by the field t. A string is a      *)
(* sequence of symbols; a symbol is one character, except "constructor",   *)
(* which stands for that run of eleven letters (it holds no '$' and no     *)
(* '.'). Objects and arrays live in a heap, a sequence of cells addressed  *)
(* by position, so that aliasing and in-place writes are visible.          *)
(***************************************************************************)
EXTENDS Integers, Sequences, FiniteSets, TLC

VARIABLES
  heap,   \* the cells of the objects and arrays
  base,   \* the caller's value lies in the cells 1..base
  obj,    \* the caller's value
  call,   \* the call made: the function and the options passed
  arg,    \* the caller's value, as a tree, as it was when the call was made
  ret,    \* what the call returned
  prev,   \* the call whose result the caller holds as its value, if any
  req,    \* the request the middleware runs on
  log,    \* the calls the middleware made in its last run, in order
  before, \* the request as it was when the last run of the middleware began
  pc,     \* where the running middleware is: the block it comes to next
  lastIndex \* the lastIndex of each of the module's two regular expressions

vars == <<heap, base, obj, call, arg, ret, prev, req, log, before, pc, lastIndex>>
requestVars == <<req, log, before, pc>>

-----------------------------------------------------------------------------
(* JavaScript values *)

Undefined == [t |-> "undefined"]
Null == [t |-> "null"]
Absent == [t |-> "absent"]
Num(n) == [t |-> "number", n |-> n]
Bool(b) == [t |-> "boolean", b |-> b]
Str(s) == [t |-> "string", s |-> s]
Function == [t |-> "function"]
Ref(a) == [t |-> "ref", a |-> a]
Obj(entries) == [t |-> "object", e |-> entries]
Arr(items) == [t |-> "array", e |-> items]
None == [t |-> "none"]

\* the value read from a property: a property that is not there reads undefined
Read(x) == IF x = Absent THEN Undefined ELSE x

\* ToBoolean
Truthy(x) ==
  CASE x.t = "boolean" -> x.b
    [] x.t = "string" -> x.s # <<>>
    [] x.t = "number" -> x.n # 0
    [] x.t \in {"ref", "object", "array", "function"} -> TRUE
    [] OTHER -> FALSE

\* a || b
Or(a, b) == IF Truthy(a) THEN a ELSE b

typeof(x) ==
  CASE x.t \in {"string", "number", "boolean", "undefined", "function"} -> x.t
    [] OTHER -> "object"

isArray(h, val) == val.t = "ref" /\ h[val.a].t = "array"

HasOwn(o, key) == \E i \in 1..Len(o.e) : o.e[i].k = key

\* obj[key] = x on an object's own properties: an existing key keeps its place
PutProp(entries, key, x) ==
  IF \E i \in 1..Len(entries) : entries[i].k = key
  THEN [i \in 1..Len(entries) |->
          IF entries[i].k = key THEN [k |-> key, v |-> x] ELSE entries[i]]
  ELSE Append(entries, [k |-> key, v |-> x])

-----------------------------------------------------------------------------
(* Trees: values written out in full, the children in place of references *)

RECURSIVE Deref(_, _)
Deref(h, x) ==
  IF x.t # "ref" THEN x
  ELSE LET o == h[x.a] IN
       IF o.t = "object"
       THEN Obj([i \in 1..Len(o.e) |-> [k |-> o.e[i].k, v |-> Deref(h, o.e[i].v)]])
       ELSE Arr([i \in 1..Len(o.e) |-> Deref(h, o.e[i])])

\* a tree with every object as a function of its keys: equality of Canon is
\* deep equality (property order is not part of it)
RECURSIVE Canon(_)
Canon(x) ==
  CASE x.t = "object" ->
         [t |-> "object",
          m |-> [key \in {x.e[i].k : i \in 1..Len(x.e)} |->
                   Canon(x.e[CHOOSE i \in 1..Len(x.e) : x.e[i].k = key].v)]]
    [] x.t = "array" -> Arr([i \in 1..Len(x.e) |-> Canon(x.e[i])])
    [] OTHER -> x

DeepEqual(x, y) == Canon(x) = Canon(y)

\* builds a tree in the heap: the cells of the children, then the cell itself
RECURSIVE Alloc(_, _), AllocEach(_, _, _, _)
Alloc(h, x) ==
  IF x.t \notin {"object", "array"} THEN [h |-> h, v |-> x]
  ELSE LET kids == IF x.t = "object" THEN [i \in 1..Len(x.e) |-> x.e[i].v] ELSE x.e
           r == AllocEach(h, kids, 1, <<>>)
           cell == IF x.t = "object"
                   THEN Obj([i \in 1..Len(x.e) |-> [k |-> x.e[i].k, v |-> r.vs[i]]])
                   ELSE Arr(r.vs)
       IN [h |-> Append(r.h, cell), v |-> Ref(Len(r.h) + 1)]
AllocEach(h, xs, i, acc) ==
  IF i > Len(xs) THEN [h |-> h, vs |-> acc]
  ELSE LET r == Alloc(h, xs[i]) IN AllocEach(r.h, xs, i + 1, Append(acc, r.v))

-----------------------------------------------------------------------------
(* The engine *)

\* /\$/g and /[\$\.]/g, each as the set of characters it matches
NO_SQL_CHARS_TO_REPLACE == {"$"}
DOT_NO_SQL_CHARS_TO_REPLACE == {"$", "."}

\* allowDots ? NO_SQL_CHARS_TO_REPLACE : DOT_NO_SQL_CHARS_TO_REPLACE
charRegex(allowDots) ==
  IF Truthy(allowDots) THEN NO_SQL_CHARS_TO_REPLACE ELSE DOT_NO_SQL_CHARS_TO_REPLACE

\* String.prototype.match with a global regex, in a boolean context
match(s, regex) == \E i \in 1..Len(s) : s[i] \in regex

\* What String.prototype.replace puts in place of one match when the
\* replacement is a string: $$ is a dollar, $& the matched text, $' the text
\* after the match; $n and $< name captures, which these patterns do not have,
\* so they stay as written, as does any other $.
RECURSIVE GetSubstitution(_, _, _, _, _)
GetSubstitution(matched, str, position, replacement, i) ==
  IF i > Len(replacement) THEN <<>>
  ELSE IF replacement[i] = "$" /\ i < Len(replacement) /\ replacement[i + 1] = "$"
       THEN <<"$">> \o GetSubstitution(matched, str, position, replacement, i + 2)
  ELSE IF replacement[i] = "$" /\ i < Len(replacement) /\ replacement[i + 1] = "&"
       THEN matched \o GetSubstitution(matched, str, position, replacement, i + 2)
  ELSE IF replacement[i] = "$" /\ i < Len(replacement) /\ replacement[i + 1] = "'"
       THEN SubSeq(str, position + Len(matched), Len(str))
            \o GetSubstitution(matched, str, position, replacement, i + 2)
  ELSE <<replacement[i]>> \o GetSubstitution(matched, str, position, replacement, i + 1)

\* a replace that stops after the first match, as a regex without the g flag
RECURSIVE replaceFirst(_, _, _, _)
replaceFirst(s, regex, replaceWith, i) ==
  IF i > Len(s) THEN <<>>
  ELSE IF s[i] \in regex
       THEN GetSubstitution(<<s[i]>>, s, i, replaceWith, 1) \o SubSeq(s, i + 1, Len(s))
       ELSE <<s[i]>> \o replaceFirst(s, regex, replaceWith, i + 1)

\* s.replace(regex, replaceWith) from position i on: every match is replaced
RECURSIVE replace(_, _, _, _)
replace(s, regex, replaceWith, i) ==
  IF i > Len(s) THEN <<>>
  ELSE (IF s[i] \in regex
        THEN GetSubstitution(<<s[i]>>, s, i, replaceWith, 1)
        ELSE <<s[i]>>) \o replace(s, regex, replaceWith, i + 1)

\* val.constructor === Object: an own property named constructor shadows the
\* one every object inherits from Object.prototype
isPlainObject(h, val) ==
  /\ typeof(val) = "object"
  /\ val # Null
  /\ ~isArray(h, val)
  /\ ~HasOwn(h[val.a], <<"constructor">>)

\* lodash.clonedeep: a copy that shares no cell with the original
RECURSIVE cloneDeep(_, _), cloneEach(_, _, _, _)
cloneDeep(h, x) ==
  IF x.t # "ref" THEN [h |-> h, v |-> x]
  ELSE LET o == h[x.a]
           kids == IF o.t = "object" THEN [i \in 1..Len(o.e) |-> o.e[i].v] ELSE o.e
           r == cloneEach(h, kids, 1, <<>>)
           cell == IF o.t = "object"
                   THEN Obj([i \in 1..Len(o.e) |-> [k |-> o.e[i].k, v |-> r.vs[i]]])
                   ELSE Arr(r.vs)
       IN [h |-> Append(r.h, cell), v |-> Ref(Len(r.h) + 1)]
cloneEach(h, xs, i, acc) ==
  IF i > Len(xs) THEN [h |-> h, vs |-> acc]
  ELSE LET r == cloneDeep(h, xs[i]) IN cloneEach(r.h, xs, i + 1, Append(acc, r.v))

\* const replaceWith = own string property replaceWith, else '_'
replaceWithOf(options) ==
  IF options.replaceWith # Absent /\ typeof(options.replaceWith) = "string"
  THEN options.replaceWith.s
  ELSE <<"_">>

\* options.dryRun === true, in place of options.dryRun || false
strictFlag(x) == IF x = Bool(TRUE) THEN x ELSE Bool(FALSE)

\* options.dryRun || false, options.allowDots || false
flagOf(x) == Or(Read(x), Bool(FALSE))

\* the closure of _recursiveSanitize: replaceWith, dryRun, allowDots
envOf(options) ==
  [replaceWith |-> replaceWithOf(options),
   dryRun |-> flagOf(options.dryRun),
   allowDots |-> flagOf(options.allowDots)]

\* _recursiveSanitize(current) in the heap h, hasSanitized being hs on entry;
\* the result is the heap, the value returned and hasSanitized on return
RECURSIVE _recursiveSanitize(_, _, _, _), sanitizeEntries(_, _, _, _, _, _),
          sanitizeItems(_, _, _, _, _, _)
_recursiveSanitize(h, current, env, hs) ==
  IF isPlainObject(h, current)
  THEN LET r == sanitizeEntries(h, h[current.a].e, 1, <<>>, env, hs)
       IN [h |-> Append(r.h, Obj(r.e)), v |-> Ref(Len(r.h) + 1), hs |-> r.hs]
  ELSE IF isArray(h, current)
  THEN LET r == sanitizeItems(h, h[current.a].e, 1, <<>>, env, hs)
       IN [h |-> Append(r.h, Arr(r.e)), v |-> Ref(Len(r.h) + 1), hs |-> r.hs]
  ELSE [h |-> h, v |-> current, hs |-> hs]

\* the body of for (const key in current), from the i-th own property on;
\* newObj holds the properties set so far
sanitizeEntries(h, entries, i, newObj, env, hs) ==
  IF i > Len(entries) THEN [h |-> h, e |-> newObj, hs |-> hs]
  ELSE LET key == entries[i].k
           val == entries[i].v
           regex == charRegex(env.allowDots)
           keyHit == match(key, regex)
           newKey == IF keyHit THEN replace(key, regex, env.replaceWith, 1) ELSE key
           hs1 == hs \/ (keyHit /\ ~Truthy(env.dryRun))
       IN IF isPlainObject(h, val) \/ isArray(h, val)
          THEN LET r == _recursiveSanitize(h, val, env, hs1)
               IN sanitizeEntries(r.h, entries, i + 1, PutProp(newObj, newKey, r.v),
                                  env, r.hs)
          ELSE IF typeof(val) = "string" /\ match(val.s, regex) /\ ~Truthy(env.dryRun)
          THEN sanitizeEntries(h, entries, i + 1,
                               PutProp(newObj, newKey,
                                       Str(replace(val.s, regex, env.replaceWith, 1))),
                               env, TRUE)
          ELSE sanitizeEntries(h, entries, i + 1, PutProp(newObj, newKey, val), env, hs1)

\* the callback of current.map, from the i-th item on
sanitizeItems(h, items, i, out, env, hs) ==
  IF i > Len(items) THEN [h |-> h, e |-> out, hs |-> hs]
  ELSE LET item == items[i]
           regex == charRegex(env.allowDots)
       IN IF isPlainObject(h, item) \/ isArray(h, item)
          THEN LET r == _recursiveSanitize(h, item, env, hs)
               IN sanitizeItems(r.h, items, i + 1, Append(out, r.v), env, r.hs)
          ELSE IF typeof(item) = "string" /\ match(item.s, regex) /\ ~Truthy(env.dryRun)
          THEN sanitizeItems(h, items, i + 1,
                             Append(out, Str(replace(item.s, regex, env.replaceWith, 1))),
                             env, TRUE)
          ELSE sanitizeItems(h, items, i + 1, Append(out, item), env, hs)

\* return { ..., target: sanitizedTarget } whatever dryRun is
keepSanitized(dryRun, o, sanitizedTarget) == sanitizedTarget

\* target: dryRun ? obj : sanitizedTarget
targetOf(dryRun, o, sanitizedTarget) == IF Truthy(dryRun) THEN o ELSE sanitizedTarget

\* the sanitized root written over the caller's own object
writeBack(h, o, sanitizedTarget) ==
  IF o.t = "ref" /\ sanitizedTarget.t = "ref"
  THEN [h EXCEPT ![o.a] = h[sanitizedTarget.a]]
  ELSE h

\* a _sanitize that sanitizes the caller's object in place (no copy is kept
\* apart): the traversal's result is assigned over obj
_sanitizeInPlace(h, o, options) ==
  LET env == envOf(options)
      regex == charRegex(env.allowDots)
  IN IF typeof(o) = "string"
     THEN IF match(o.s, regex)
          THEN [h |-> h, isSanitized |-> TRUE,
                target |-> IF Truthy(env.dryRun) THEN o
                           ELSE Str(replace(o.s, regex, env.replaceWith, 1))]
          ELSE [h |-> h, isSanitized |-> FALSE, target |-> o]
     ELSE IF ~isPlainObject(h, o) /\ ~isArray(h, o)
     THEN [h |-> h, isSanitized |-> FALSE, target |-> o]
     ELSE LET r == _recursiveSanitize(h, o, env, FALSE)
          IN [h |-> IF Truthy(env.dryRun) THEN r.h ELSE writeBack(r.h, o, r.v),
              isSanitized |-> r.hs, target |-> o]

\* _sanitize(obj, options) in the heap h
_sanitize(h, o, options) ==
  LET env == envOf(options)
      regex == charRegex(env.allowDots)
  IN IF typeof(o) = "string"
     THEN IF match(o.s, regex)
          THEN [h |-> h, isSanitized |-> TRUE,
                target |-> IF Truthy(env.dryRun) THEN o
                           ELSE Str(replace(o.s, regex, env.replaceWith, 1))]
          ELSE [h |-> h, isSanitized |-> FALSE, target |-> o]
     ELSE IF ~isPlainObject(h, o) /\ ~isArray(h, o)
     THEN [h |-> h, isSanitized |-> FALSE, target |-> o]
     ELSE LET c == cloneDeep(h, o)
              r == _recursiveSanitize(c.h, c.v, env, FALSE)
          IN [h |-> r.h, isSanitized |-> r.hs,
              target |-> targetOf(env.dryRun, o, r.v)]

\* sanitize called without options: _sanitize's default parameter, {}
NoOptions == [replaceWith |-> Absent, dryRun |-> Absent, allowDots |-> Absent]

\* sanitize(value, options): the target of _sanitize
sanitize(h, value, options) ==
  LET r == _sanitize(h, value, options) IN [h |-> r.h, v |-> r.target]

\* has(value): the flag of _sanitize(value, { dryRun: true })
has(h, value) ==
  LET r == _sanitize(h, value, [NoOptions EXCEPT !.dryRun = Bool(TRUE)])
  IN [h |-> r.h, v |-> Bool(r.isSanitized)]

-----------------------------------------------------------------------------
(* The engine with its two regular expressions as the objects they are: both *)
(* carry the g flag, so each has a lastIndex that exec reads and writes, and *)
(* every call of the engine uses the same two objects. Positions in a string *)
(* count from 0, as lastIndex does.                                          *)

RegexNames == {"NO_SQL_CHARS_TO_REPLACE", "DOT_NO_SQL_CHARS_TO_REPLACE"}

\* the two regular expressions as the module creates them: lastIndex is 0
Loaded == [name \in RegexNames |-> 0]

\* the characters the regular expression of that name matches
Source(name) ==
  IF name = "NO_SQL_CHARS_TO_REPLACE"
  THEN NO_SQL_CHARS_TO_REPLACE
  ELSE DOT_NO_SQL_CHARS_TO_REPLACE

\* allowDots ? NO_SQL_CHARS_TO_REPLACE : DOT_NO_SQL_CHARS_TO_REPLACE
regexOf(allowDots) ==
  IF Truthy(allowDots) THEN "NO_SQL_CHARS_TO_REPLACE" ELSE "DOT_NO_SQL_CHARS_TO_REPLACE"

\* RegExpBuiltinExec on a regex with the g flag whose lastIndex is li: the
\* search starts at li; a failure sets lastIndex to 0, a match sets it to the
\* end of the match. index is -1 when there is no match.
RegExpBuiltinExec(S, chars, li) ==
  LET hits == {i \in li..(Len(S) - 1) : S[i + 1] \in chars}
  IN IF li > Len(S) \/ hits = {}
     THEN [index |-> -1, lastIndex |-> 0]
     ELSE LET i == CHOOSE j \in hits : \A k \in hits : j <= k
          IN [index |-> i, lastIndex |-> i + 1]

\* exec repeated until it fails, as match and replace do with a global regex;
\* acc holds the positions matched so far
RECURSIVE execAll(_, _, _, _)
execAll(S, chars, li, acc) ==
  LET r == RegExpBuiltinExec(S, chars, li)
  IN IF r.index = -1
     THEN [indices |-> acc, lastIndex |-> r.lastIndex]
     ELSE execAll(S, chars, r.lastIndex, Append(acc, r.index))

\* regex.test(S): one exec from the lastIndex the regex has, which stays where
\* the match ended
RegExpTest(S, chars, li) ==
  LET r == RegExpBuiltinExec(S, chars, li)
  IN [found |-> r.index # -1, lastIndex |-> r.lastIndex]

\* S.match(regex) with a global regex, in a boolean context: lastIndex is set
\* to 0, then exec is repeated until it fails
RegExpMatch(S, chars, li) ==
  LET r == execAll(S, chars, 0, <<>>)
  IN [found |-> r.indices # <<>>, lastIndex |-> r.lastIndex]

\* S from position i on (from 1) with each matched position substituted
RECURSIVE Substitute(_, _, _, _)
Substitute(S, indices, replaceWith, i) ==
  IF i > Len(S) THEN <<>>
  ELSE (IF \E j \in 1..Len(indices) : indices[j] = i - 1
        THEN GetSubstitution(<<S[i]>>, S, i, replaceWith, 1)
        ELSE <<S[i]>>) \o Substitute(S, indices, replaceWith, i + 1)

\* S.replace(regex, replaceWith) with a global regex: lastIndex is set to 0,
\* exec is repeated until it fails, then the matches are substituted
RegExpReplace(S, chars, replaceWith, li) ==
  LET r == execAll(S, chars, 0, <<>>)
  IN [s |-> Substitute(S, r.indices, replaceWith, 1), lastIndex |-> r.lastIndex]

\* the one element of a set of one element
Only(S) == CHOOSE x \in S : TRUE

\* S.match(regex) on the regex of that name, re being the lastIndex of each
matchOn(re, name, S) ==
  Only({[found |-> r.found, re |-> [re EXCEPT ![name] = r.lastIndex]] :
          r \in {RegExpMatch(S, Source(name), re[name])}})

\* S.replace(regex, replaceWith) on the regex of that name
replaceOn(re, name, S, replaceWith) ==
  Only({[s |-> r.s, re |-> [re EXCEPT ![name] = r.lastIndex]] :
          r \in {RegExpReplace(S, Source(name), replaceWith, re[name])}})

\* if (key.match(keyCharRegex)) newKey = key.replace(keyCharRegex, replaceWith):
\* the new key, whether the key matched, and the lastIndex of each regex after
newKeyOn(re, name, key, replaceWith) ==
  Only({IF keyMatch.found
        THEN Only({[s |-> r.s, found |-> TRUE, re |-> r.re] :
                     r \in {replaceOn(keyMatch.re, name, key, replaceWith)}})
        ELSE [s |-> key, found |-> FALSE, re |-> keyMatch.re] :
          keyMatch \in {matchOn(re, name, key)}})

\* if (val.match(valCharRegex)) { if (!dryRun) val.replace(...) else val }
\* else val: the string kept, whether it was replaced, and the lastIndex of
\* each regex after
newValueOn(re, name, val, env) ==
  Only({IF valMatch.found /\ ~Truthy(env.dryRun)
        THEN Only({[s |-> r.s, replaced |-> TRUE, re |-> r.re] :
                     r \in {replaceOn(valMatch.re, name, val, env.replaceWith)}})
        ELSE [s |-> val, replaced |-> FALSE, re |-> valMatch.re] :
          valMatch \in {matchOn(re, name, val)}})

\* _recursiveSanitize(current), re being the lastIndex of each regex on entry;
\* the result holds it as it is on return
RECURSIVE _recursiveSanitizeOn(_, _, _, _, _), sanitizeEntriesOn(_, _, _, _, _, _, _),
          sanitizeItemsOn(_, _, _, _, _, _, _)
_recursiveSanitizeOn(re, h, current, env, hs) ==
  IF isPlainObject(h, current)
  THEN Only({[h |-> Append(r.h, Obj(r.e)), v |-> Ref(Len(r.h) + 1), hs |-> r.hs,
              re |-> r.re] :
               r \in {sanitizeEntriesOn(re, h, h[current.a].e, 1, <<>>, env, hs)}})
  ELSE IF isArray(h, current)
  THEN Only({[h |-> Append(r.h, Arr(r.e)), v |-> Ref(Len(r.h) + 1), hs |-> r.hs,
              re |-> r.re] :
               r \in {sanitizeItemsOn(re, h, h[current.a].e, 1, <<>>, env, hs)}})
  ELSE [h |-> h, v |-> current, hs |-> hs, re |-> re]

\* the body of for (const key in current), from the i-th own property on
sanitizeEntriesOn(re, h, entries, i, newObj, env, hs) ==
  IF i > Len(entries) THEN [h |-> h, e |-> newObj, hs |-> hs, re |-> re]
  ELSE Only({
    LET val == entries[i].v
        hs1 == hs \/ (newKey.found /\ ~Truthy(env.dryRun))
    IN IF isPlainObject(h, val) \/ isArray(h, val)
       THEN Only({sanitizeEntriesOn(r.re, r.h, entries, i + 1,
                                    PutProp(newObj, newKey.s, r.v), env, r.hs) :
                    r \in {_recursiveSanitizeOn(newKey.re, h, val, env, hs1)}})
       ELSE IF typeof(val) = "string"
       THEN Only({sanitizeEntriesOn(r.re, h, entries, i + 1,
                                    PutProp(newObj, newKey.s, Str(r.s)), env,
                                    hs1 \/ r.replaced) :
                    r \in {newValueOn(newKey.re, regexOf(env.allowDots), val.s, env)}})
       ELSE sanitizeEntriesOn(newKey.re, h, entries, i + 1,
                              PutProp(newObj, newKey.s, val), env, hs1) :
      newKey \in {newKeyOn(re, regexOf(env.allowDots), entries[i].k, env.replaceWith)}})

\* the callback of current.map, from the i-th item on
sanitizeItemsOn(re, h, items, i, out, env, hs) ==
  IF i > Len(items) THEN [h |-> h, e |-> out, hs |-> hs, re |-> re]
  ELSE LET item == items[i]
       IN IF isPlainObject(h, item) \/ isArray(h, item)
          THEN Only({sanitizeItemsOn(r.re, r.h, items, i + 1, Append(out, r.v), env,
                                     r.hs) :
                       r \in {_recursiveSanitizeOn(re, h, item, env, hs)}})
          ELSE IF typeof(item) = "string"
          THEN Only({sanitizeItemsOn(r.re, h, items, i + 1, Append(out, Str(r.s)),
                                     env, hs \/ r.replaced) :
                       r \in {newValueOn(re, regexOf(env.allowDots), item.s, env)}})
          ELSE sanitizeItemsOn(re, h, items, i + 1, Append(out, item), env, hs)

\* _sanitize(obj, options) in the heap h, re being the lastIndex of each regex
\* when the call is made
_sanitizeOn(re, h, o, options) ==
  LET env == envOf(options)
      name == regexOf(env.allowDots)
  IN IF typeof(o) = "string"
     THEN Only({IF m.found /\ ~Truthy(env.dryRun)
                THEN Only({[h |-> h, isSanitized |-> TRUE, target |-> Str(r.s),
                            re |-> r.re] :
                             r \in {replaceOn(m.re, name, o.s, env.replaceWith)}})
                ELSE [h |-> h, isSanitized |-> m.found, target |-> o, re |-> m.re] :
                  m \in {matchOn(re, name, o.s)}})
     ELSE IF ~isPlainObject(h, o) /\ ~isArray(h, o)
     THEN [h |-> h, isSanitized |-> FALSE, target |-> o, re |-> re]
     ELSE Only({Only({[h |-> r.h, isSanitized |-> r.hs,
                       target |-> targetOf(env.dryRun, o, r.v), re |-> r.re] :
                        r \in {_recursiveSanitizeOn(re, c.h, c.v, env, FALSE)}}) :
                  c \in {cloneDeep(h, o)}})

\* sanitize(value, options)
sanitizeOn(re, h, value, options) ==
  Only({[h |-> r.h, v |-> r.target, re |-> r.re] :
          r \in {_sanitizeOn(re, h, value, options)}})

\* has(value)
hasOn(re, h, value) ==
  Only({[h |-> r.h, v |-> Bool(r.isSanitized), re |-> r.re] :
          r \in {_sanitizeOn(re, h, value, [NoOptions EXCEPT !.dryRun = Bool(TRUE)])}})

-----------------------------------------------------------------------------
(* The values and options the callers pass *)

\* the most own properties of an object, and items of an array, at one level
MaxEntries == 2

Keys == {<<"a">>, <<"a", ".", "b">>, <<"a", "$", "b">>, <<"constructor">>}

Leaves == {Str(<<"a">>), Str(<<"$", "a", ".">>), Num(1), Null}

\* the sequences of at most n elements of S
RECURSIVE SeqsUpTo(_, _)
SeqsUpTo(S, n) ==
  IF n = 0 THEN {<<>>}
  ELSE LET shorter == SeqsUpTo(S, n - 1)
       IN shorter \cup {Append(q, x) : q \in {r \in shorter : Len(r) = n - 1}, x \in S}

DistinctKeys(entries) ==
  \A i, j \in 1..Len(entries) : entries[i].k = entries[j].k => i = j

ObjectsOf(values) ==
  {Obj(es) : es \in {q \in SeqsUpTo([k : Keys, v : values], MaxEntries) : DistinctKeys(q)}}

ArraysOf(values) == {Arr(xs) : xs \in SeqsUpTo(values, MaxEntries)}

\* containers of leaves, and those containers held once more by an object
\* (under the key "a" or the key "a$b") or by an array
Flat == ObjectsOf(Leaves) \cup ArraysOf(Leaves)
Nested ==
  {Obj(<<[k |-> key, v |-> c]>>) : key \in {<<"a">>, <<"a", "$", "b">>}, c \in Flat}
    \cup {Arr(<<c>>) : c \in Flat}
Trees == Leaves \cup Flat \cup Nested

Options ==
  [replaceWith : {Absent, Str(<<>>), Str(<<"$", "$">>), Str(<<"$", "&">>)},
   dryRun : {Absent, Bool(TRUE)},
   allowDots : {Absent, Bool(TRUE)}]

-----------------------------------------------------------------------------
(* A caller holding one value and making one call of the engine on it *)

Request0 == None

NoCall == [fn |-> "none", options |-> NoOptions]

Init ==
  /\ \E tree \in Trees :
       LET r == Alloc(<<>>, tree) IN heap = r.h /\ obj = r.v
  /\ base = Len(heap)
  /\ call = NoCall
  /\ arg = None
  /\ ret = None
  /\ prev = None
  /\ req = Request0
  /\ log = <<>>
  /\ before = None
  /\ pc = "idle"
  /\ lastIndex = Loaded

\* the caller's cells: what an earlier call allocated is no longer held
Own == SubSeq(heap, 1, base)

Call_sanitize ==
  \E options \in Options :
    LET r == _sanitize(Own, obj, options) IN
      /\ call = NoCall
      /\ heap' = r.h
      /\ call' = [fn |-> "_sanitize", options |-> options]
      /\ arg' = Deref(heap, obj)
      /\ ret' = [t |-> "result", isSanitized |-> r.isSanitized, target |-> r.target]
      /\ UNCHANGED <<base, obj, prev, requestVars, lastIndex>>

CallSanitize ==
  \E options \in Options :
    LET r == sanitize(Own, obj, options) IN
      /\ call = NoCall
      /\ heap' = r.h
      /\ call' = [fn |-> "sanitize", options |-> options]
      /\ arg' = Deref(heap, obj)
      /\ ret' = r.v
      /\ UNCHANGED <<base, obj, prev, requestVars, lastIndex>>

CallHas ==
  LET r == has(Own, obj) IN
    /\ call = NoCall
    /\ heap' = r.h
    /\ call' = [fn |-> "has", options |-> NoOptions]
    /\ arg' = Deref(heap, obj)
    /\ ret' = r.v
    /\ UNCHANGED <<base, obj, prev, requestVars, lastIndex>>

Next == Call_sanitize \/ CallSanitize \/ CallHas

Spec == Init /\ [][Next]_vars

-----------------------------------------------------------------------------
(* What the specification says of a tree, written without the engine *)

\* the forbidden characters under a policy: '$', and '.' unless allowDots
ForbiddenChars(allowDots) == IF allowDots THEN {"$"} ELSE {"$", "."}

\* a forbidden character occurs in a key or a string value somewhere in x
RECURSIVE HasForbidden(_, _)
HasForbidden(x, chars) ==
  CASE x.t = "string" -> \E i \in 1..Len(x.s) : x.s[i] \in chars
    [] x.t = "object" ->
         \E i \in 1..Len(x.e) :
           \/ \E j \in 1..Len(x.e[i].k) : x.e[i].k[j] \in chars
           \/ HasForbidden(x.e[i].v, chars)
    [] x.t = "array" -> \E i \in 1..Len(x.e) : HasForbidden(x.e[i], chars)
    [] OTHER -> FALSE

\* s with each forbidden character replaced by exactly the characters of r
RECURSIVE Literal(_, _, _)
Literal(s, chars, r) ==
  IF s = <<>> THEN <<>>
  ELSE (IF Head(s) \in chars THEN r ELSE <<Head(s)>>) \o Literal(Tail(s), chars, r)

\* the reference result: keys and strings rewritten at every depth, the
\* later entry kept when two keys of one mapping become the same key
RECURSIVE Reference(_, _, _), ReferenceEntries(_, _, _, _)
Reference(x, chars, r) ==
  CASE x.t = "string" -> Str(Literal(x.s, chars, r))
    [] x.t = "object" -> Obj(ReferenceEntries(x.e, chars, r, <<>>))
    [] x.t = "array" -> Arr([i \in 1..Len(x.e) |-> Reference(x.e[i], chars, r)])
    [] OTHER -> x
ReferenceEntries(entries, chars, r, out) ==
  IF entries = <<>> THEN out
  ELSE ReferenceEntries(Tail(entries), chars, r,
                        PutProp(out, Literal(Head(entries).k, chars, r),
                                Reference(Head(entries).v, chars, r)))

\* the policy a call states: its fields where they are well formed
StatedDryRun(options) == options.dryRun = Bool(TRUE)
StatedAllowDots(options) == options.allowDots = Bool(TRUE)
StatedReplacement(options) ==
  IF options.replaceWith.t = "string" THEN options.replaceWith.s ELSE <<"_">>
StatedChars(options) == ForbiddenChars(StatedAllowDots(options))

IsContainer(x) == x.t \in {"object", "array"}

-----------------------------------------------------------------------------
(* The claims on the engine *)

\* C1: the flag isSanitized returned by _sanitize(v, policy) is true exactly
\* when a forbidden character occurs in a key or a string value somewhere in
\* v, with dryRun as without it.
C1_FlagIffForbidden ==
  call.fn = "_sanitize" =>
    (ret.isSanitized <=> HasForbidden(arg, StatedChars(call.options)))

\* C2: with dryRun false, sanitize(v, policy) is deep-equal to the reference
\* result: every key and string rewritten literally at every depth, scalars
\* and container shapes kept, the later entry kept on a key collision.
C2_SanitizeIsReference ==
  (call.fn = "sanitize" /\ ~StatedDryRun(call.options)) =>
    DeepEqual(Deref(heap, ret),
              Reference(arg, StatedChars(call.options), StatedReplacement(call.options)))

\* C3: after a call to _sanitize, sanitize or has, under any policy, the tree
\* the caller passed is deep-equal to what it was before the call.
C3_InputUnchanged ==
  call.fn \in {"_sanitize", "sanitize", "has"} => DeepEqual(Deref(heap, obj), arg)

\* a call without dryRun on a container that returned a container unlike it
C3_Witness ==
  /\ call.fn = "sanitize"
  /\ ~StatedDryRun(call.options)
  /\ IsContainer(arg)
  /\ ~DeepEqual(Deref(heap, ret), arg)
  /\ DeepEqual(Deref(heap, obj), arg)

\* C4: has(T) is true exactly when sanitize(T) under the default policy is
\* not deep-equal to T, for strings, mappings and sequences alike.
C4_HasIffSanitizeChanges ==
  call.fn = "has" =>
    LET s == sanitize(Own, obj, NoOptions)
    IN (ret = Bool(TRUE)) <=> ~DeepEqual(Deref(s.h, s.v), arg)

\* C5: _sanitize(T, {dryRun: true}), with any replacement and allowDots,
\* returns a value deep-equal to T.
C5_DryRunReturnsInput ==
  (call.fn = "_sanitize" /\ StatedDryRun(call.options)) =>
    DeepEqual(Deref(heap, ret.target), arg)

\* a dry run on a container that holds forbidden characters
C5_Witness ==
  /\ call.fn = "_sanitize"
  /\ StatedDryRun(call.options)
  /\ IsContainer(arg)
  /\ HasForbidden(arg, StatedChars(call.options))
  /\ DeepEqual(Deref(heap, ret.target), arg)

\* C7: sanitizing a string s with dryRun false and replacement r yields s with
\* each forbidden character replaced by exactly the characters of r, whatever
\* '$' sequences r holds, and every occurrence is replaced.
C7_ReplacementIsLiteral ==
  (call.fn = "sanitize" /\ ~StatedDryRun(call.options) /\ arg.t = "string") =>
    ret = Str(Literal(arg.s, StatedChars(call.options), StatedReplacement(call.options)))

\* an object somewhere in x, x included, has an own key named constructor
RECURSIVE HasConstructorKey(_)
HasConstructorKey(x) ==
  CASE x.t = "object" ->
         \/ \E i \in 1..Len(x.e) : x.e[i].k = <<"constructor">>
         \/ \E i \in 1..Len(x.e) : HasConstructorKey(x.e[i].v)
    [] x.t = "array" -> \E i \in 1..Len(x.e) : HasConstructorKey(x.e[i])
    [] OTHER -> FALSE

\* r holds none of the characters chars
FreeOf(r, chars) == \A i \in 1..Len(r) : r[i] \notin chars

\* C11: a mapping is traversed whatever its keys: for a mapping with an own
\* key 'constructor', at the root or nested, sanitize with dryRun false and a
\* replacement free of forbidden characters returns a mapping in which no key
\* and no string value, at any depth, holds a forbidden character.
C11_ConstructorKeyTraversed ==
  (/\ call.fn = "sanitize"
   /\ ~StatedDryRun(call.options)
   /\ arg.t = "object"
   /\ HasConstructorKey(arg)
   /\ FreeOf(StatedReplacement(call.options), StatedChars(call.options)))
    => /\ Deref(heap, ret).t = "object"
       /\ ~HasForbidden(Deref(heap, ret), StatedChars(call.options))

-----------------------------------------------------------------------------
(* A caller under the default policy who passes a result back to the engine *)

SanitizeDefault ==
  LET r == sanitize(Own, obj, NoOptions) IN
    /\ call = NoCall
    /\ heap' = r.h
    /\ call' = [fn |-> "sanitize", options |-> NoOptions]
    /\ arg' = Deref(heap, obj)
    /\ ret' = r.v
    /\ UNCHANGED <<base, obj, prev, requestVars, lastIndex>>

\* the caller takes the value sanitize returned as its value and lets go of
\* the value it passed: the cells left are those of the returned value
Adopt ==
  /\ call.fn = "sanitize"
  /\ LET r == Alloc(<<>>, Deref(heap, ret))
     IN heap' = r.h /\ obj' = r.v /\ base' = Len(r.h)
  /\ prev' = [arg |-> arg, out |-> Deref(heap, ret)]
  /\ call' = NoCall
  /\ arg' = None
  /\ ret' = None
  /\ UNCHANGED <<requestVars, lastIndex>>

NextIdem == SanitizeDefault \/ CallHas \/ Adopt

SpecIdem == Init /\ [][NextIdem]_vars

\* C6: under the default policy sanitize(sanitize(T)) is deep-equal to
\* sanitize(T), and has(sanitize(T)) is false.
C6_Idempotent ==
  prev # None =>
    /\ call.fn = "sanitize" => DeepEqual(Deref(heap, ret), prev.out)
    /\ call.fn = "has" => ret = Bool(FALSE)

\* sanitize applied to the result of a sanitize that rewrote a container
C6_Witness ==
  /\ prev # None
  /\ IsContainer(prev.arg)
  /\ ~DeepEqual(prev.out, prev.arg)
  /\ call.fn = "sanitize"
  /\ DeepEqual(Deref(heap, ret), prev.out)

-----------------------------------------------------------------------------
(* A caller passing options whose fields need not have the declared types *)

PolicyTrees ==
  Leaves
    \cup {Obj(<<[k |-> key, v |-> leaf]>>) : key \in Keys, leaf \in Leaves}
    \cup {Arr(<<leaf>>) : leaf \in Leaves}

AnyFlag == {Absent, Bool(TRUE), Bool(FALSE), Str(<<"a">>), Str(<<>>), Num(1), Num(0), Null}

AnyOptions ==
  [replaceWith : {Absent, Str(<<>>), Num(5), Null}, dryRun : AnyFlag, allowDots : AnyFlag]

InitPolicy ==
  /\ \E tree \in PolicyTrees :
       LET r == Alloc(<<>>, tree) IN heap = r.h /\ obj = r.v
  /\ base = Len(heap)
  /\ call = NoCall
  /\ arg = None
  /\ ret = None
  /\ prev = None
  /\ req = Request0
  /\ log = <<>>
  /\ before = None
  /\ pc = "idle"
  /\ lastIndex = Loaded

CallAnyOptions ==
  \E options \in AnyOptions :
    LET r == _sanitize(Own, obj, options) IN
      /\ call = NoCall
      /\ heap' = r.h
      /\ call' = [fn |-> "_sanitize", options |-> options]
      /\ arg' = Deref(heap, obj)
      /\ ret' = [t |-> "result", isSanitized |-> r.isSanitized, target |-> r.target]
      /\ UNCHANGED <<base, obj, prev, requestVars, lastIndex>>

NextPolicy == CallAnyOptions

SpecPolicy == InitPolicy /\ [][NextPolicy]_vars

\* the options with every field of the wrong type taken out
Defaulted(options) ==
  [replaceWith |-> IF options.replaceWith.t = "string" THEN options.replaceWith ELSE Absent,
   dryRun |-> IF options.dryRun.t = "boolean" THEN options.dryRun ELSE Absent,
   allowDots |-> IF options.allowDots.t = "boolean" THEN options.allowDots ELSE Absent]

\* a flag of the wrong type counts as true unless it is null, 0 or ''
CountsAs(x) ==
  IF x.t = "boolean" \/ x = Absent THEN x
  ELSE Bool(x \notin {Null, Num(0), Str(<<>>)})

\* the options with replaceWith defaulted and each flag read by its truth value
ReadAs(options) ==
  [replaceWith |-> IF options.replaceWith.t = "string" THEN options.replaceWith ELSE Absent,
   dryRun |-> CountsAs(options.dryRun),
   allowDots |-> CountsAs(options.allowDots)]

\* the call returned what _sanitize returns on the same value under options
SameAsUnder(options) ==
  LET d == _sanitize(Own, obj, options)
  IN /\ ret.isSanitized = d.isSanitized
     /\ DeepEqual(Deref(heap, ret.target), Deref(d.h, d.target))

-----------------------------------------------------------------------------
(* A process that calls the engine again and again, each time on a value and *)
(* under options of its choice; the calls share the two regular expressions  *)

CallTrees ==
  {Str(<<"a">>), Str(<<"$", "a", ".">>), Num(1),
   Obj(<<[k |-> <<"a">>, v |-> Str(<<"$", "a", ".">>)]>>),
   Obj(<<[k |-> <<"a", ".", "b">>, v |-> Str(<<"a">>)]>>),
   Obj(<<[k |-> <<"a", "$", "b">>, v |-> Arr(<<Str(<<"$", "a", ".">>)>>)]>>),
   Arr(<<Str(<<"$", "a", ".">>), Str(<<"a">>)>>),
   Obj(<<[k |-> <<"constructor">>, v |-> Str(<<"$", "a", ".">>)]>>)}

CallOptions ==
  [replaceWith : {Absent, Str(<<"$", "&">>)},
   dryRun : {Absent, Bool(TRUE)},
   allowDots : {Absent, Bool(TRUE)}]

InitShared ==
  /\ heap = <<>>
  /\ base = 0
  /\ obj = None
  /\ call = NoCall
  /\ arg = None
  /\ ret = None
  /\ prev = None
  /\ req = Request0
  /\ log = <<>>
  /\ before = None
  /\ pc = "idle"
  /\ lastIndex = Loaded

\* the call made before the one being made: the value it was made on
Earlier == IF call = NoCall THEN None ELSE [arg |-> arg]

Call_sanitizeOn ==
  \E tree \in CallTrees, options \in CallOptions :
    \E a \in {Alloc(<<>>, tree)} : \E r \in {_sanitizeOn(lastIndex, a.h, a.v, options)} :
       /\ heap' = r.h
       /\ base' = Len(a.h)
       /\ obj' = a.v
       /\ call' = [fn |-> "_sanitize", options |-> options]
       /\ arg' = tree
       /\ ret' = [t |-> "result", isSanitized |-> r.isSanitized, target |-> r.target]
       /\ lastIndex' = r.re
       /\ prev' = Earlier
       /\ UNCHANGED requestVars

CallSanitizeOn ==
  \E tree \in CallTrees, options \in CallOptions :
    \E a \in {Alloc(<<>>, tree)} : \E r \in {sanitizeOn(lastIndex, a.h, a.v, options)} :
       /\ heap' = r.h
       /\ base' = Len(a.h)
       /\ obj' = a.v
       /\ call' = [fn |-> "sanitize", options |-> options]
       /\ arg' = tree
       /\ ret' = r.v
       /\ lastIndex' = r.re
       /\ prev' = Earlier
       /\ UNCHANGED requestVars

CallHasOn ==
  \E tree \in CallTrees :
    \E a \in {Alloc(<<>>, tree)} : \E r \in {hasOn(lastIndex, a.h, a.v)} :
       /\ heap' = r.h
       /\ base' = Len(a.h)
       /\ obj' = a.v
       /\ call' = [fn |-> "has", options |-> NoOptions]
       /\ arg' = tree
       /\ ret' = r.v
       /\ lastIndex' = r.re
       /\ prev' = Earlier
       /\ UNCHANGED requestVars

NextShared == Call_sanitizeOn \/ CallSanitizeOn \/ CallHasOn

SpecShared == InitShared /\ [][NextShared]_vars

\* C12: the engine keeps no state across calls: the result of _sanitize(v, p)
\* after any sequence of earlier calls of _sanitize, sanitize and has is the
\* result it gives when it is the first call made, although all calls share
\* the two global regular expressions.
C12_NoStateAcrossCalls ==
  call.fn = "_sanitize" =>
    LET first == _sanitizeOn(Loaded, Own, obj, call.options)
    IN /\ ret.isSanitized = first.isSanitized
       /\ DeepEqual(Deref(heap, ret.target), Deref(first.h, first.target))

\* a call on a string that holds a forbidden character, made after a call
\* that matched a regular expression on such a string
C12_Witness ==
  /\ prev # None
  /\ prev.arg = Str(<<"$", "a", ".">>)
  /\ call.fn = "_sanitize"
  /\ arg = Str(<<"$", "a", ".">>)
  /\ ret.isSanitized
  /\ LET first == _sanitizeOn(Loaded, Own, obj, call.options)
     IN DeepEqual(Deref(heap, ret.target), Deref(first.h, first.target))

-----------------------------------------------------------------------------
(* The middleware: expressSanitize(options) run on a request. The originals  *)
(* of the request are values in the heap; the sanitized fields are written   *)
(* out as trees.                                                             *)

Includes(array, x) == \E i \in 1..Len(array) : array[i] = x

\* const hasOnSanitize = typeof options.onSanitize === 'function'
hasOnSanitize(options) == typeof(Read(options.onSanitize)) = "function"

\* const fieldsToSanitize = options.fields || ['body', 'params', 'query', 'headers']
fieldsToSanitize(options) ==
  IF options.fields = Absent THEN <<"body", "params", "query", "headers">>
  ELSE options.fields.e

\* req.sanitizedX = {} whether or not it is set already
initFieldsAlways(r) ==
  [r EXCEPT !.sanitizedBody = Obj(<<>>), !.sanitizedQuery = Obj(<<>>),
            !.sanitizedParams = Obj(<<>>), !.sanitizedHeaders = Obj(<<>>)]

\* if (!req.sanitizedX) req.sanitizedX = {}, for the four sanitized fields
initFields(r) ==
  [r EXCEPT
     !.sanitizedBody = IF ~Truthy(Read(r.sanitizedBody)) THEN Obj(<<>>) ELSE @,
     !.sanitizedQuery = IF ~Truthy(Read(r.sanitizedQuery)) THEN Obj(<<>>) ELSE @,
     !.sanitizedParams = IF ~Truthy(Read(r.sanitizedParams)) THEN Obj(<<>>) ELSE @,
     !.sanitizedHeaders = IF ~Truthy(Read(r.sanitizedHeaders)) THEN Obj(<<>>) ELSE @]

\* options.onSanitize({ req, key }) whenever there is a callback
notifyAlways(lg, options, key, isSanitized) ==
  IF hasOnSanitize(options) THEN Append(lg, [ev |-> "onSanitize", key |-> key]) ELSE lg

\* if (isSanitized && hasOnSanitize) options.onSanitize({ req, key })
notify(lg, options, key, isSanitized) ==
  IF isSanitized /\ hasOnSanitize(options)
  THEN Append(lg, [ev |-> "onSanitize", key |-> key])
  ELSE lg

\* const { isSanitized, target } = _sanitize(value, options);
\* req[sanitizedField] = target; then the callback
sanitizeField(st, options, key, sanitizedField, value) ==
  LET r == _sanitize(st.heap, value, options)
      lg == Append(st.log, [ev |-> "_sanitize", key |-> key, isSanitized |-> r.isSanitized])
  IN [heap |-> r.h,
      req |-> [st.req EXCEPT ![sanitizedField] = Deref(r.h, r.target)],
      log |-> notify(lg, options, key, r.isSanitized)]

\* req.url.indexOf('?') !== -1
hasQueryString(url) == \E i \in 1..Len(url.s) : url.s[i] = "?"

\* req.url.substring(queryStringIndex + 1)
rawQueryString(url) ==
  SubSeq(url.s, (CHOOSE i \in 1..Len(url.s) :
                   url.s[i] = "?" /\ \A j \in 1..(i - 1) : url.s[j] # "?") + 1,
         Len(url.s))

\* qs.parse on a query string of at most one pair key=value whose key has no
\* bracket and no dot: the object { key: value }
qs_parse(raw) ==
  IF raw = <<>> THEN Obj(<<>>)
  ELSE IF \E i \in 1..Len(raw) : raw[i] = "="
  THEN LET eq == CHOOSE i \in 1..Len(raw) : raw[i] = "=" /\ \A j \in 1..(i - 1) : raw[j] # "="
       IN Obj(<<[k |-> SubSeq(raw, 1, eq - 1), v |-> Str(SubSeq(raw, eq + 1, Len(raw)))]>>)
  ELSE Obj(<<[k |-> raw, v |-> Str(<<>>)]>>)

\* the query block
queryStep(st, options) ==
  IF Includes(fieldsToSanitize(options), "query") /\ Truthy(st.req.url)
     /\ hasQueryString(st.req.url)
  THEN LET parsedQuery == Alloc(st.heap, qs_parse(rawQueryString(st.req.url)))
       IN sanitizeField([st EXCEPT !.heap = parsedQuery.h], options, "query",
                        "sanitizedQuery", parsedQuery.v)
  ELSE st

\* the params block: the own properties of req.params are copied to
\* tempParams (all of them are enumerable, so the for-in loop finds them and
\* the getOwnPropertyNames fallback is not taken), and tempParams is sanitized
paramsStep(st, options) ==
  IF Includes(fieldsToSanitize(options), "params") /\ Truthy(st.req.params)
     /\ Len(st.heap[st.req.params.a].e) > 0
  THEN LET tempParams == Obj(st.heap[st.req.params.a].e)
           h == Append(st.heap, tempParams)
       IN sanitizeField([st EXCEPT !.heap = h], options, "params", "sanitizedParams",
                        Ref(Len(h)))
  ELSE st

\* the body block
bodyStep(st, options) ==
  IF Includes(fieldsToSanitize(options), "body") /\ Truthy(st.req.body)
     /\ typeof(st.req.body) = "object"
  THEN sanitizeField(st, options, "body", "sanitizedBody", st.req.body)
  ELSE st

\* the headers block
headersStep(st, options) ==
  IF Includes(fieldsToSanitize(options), "headers") /\ Truthy(st.req.headers)
     /\ typeof(st.req.headers) = "object"
  THEN sanitizeField(st, options, "headers", "sanitizedHeaders", st.req.headers)
  ELSE st

\* next()
nextStep(st) == [st EXCEPT !.log = Append(@, [ev |-> "next"])]

-----------------------------------------------------------------------------
(* Requests and middleware options *)

Dirty == Str(<<"$", "a", ".">>)

Bodies ==
  {Undefined, Dirty, Obj(<<[k |-> <<"a", "$", "b">>, v |-> Dirty]>>),
   Obj(<<[k |-> <<"a">>, v |-> Num(1)]>>)}

ParamsOf ==
  {Obj(<<>>), Obj(<<[k |-> <<"a">>, v |-> Dirty]>>),
   Obj(<<[k |-> <<"a">>, v |-> Str(<<"a">>)]>>)}

HeadersOf == {Undefined, Obj(<<[k |-> <<"a", ".", "b">>, v |-> Str(<<"a">>)]>>)}

Urls ==
  {Str(<<"/">>), Str(<<"/", "?", "a", "=", "a">>), Str(<<"/", "?", "a", "=", "$", "a", ".">>)}

MiddlewareOptions ==
  [replaceWith : {Absent}, allowDots : {Absent},
   dryRun : {Absent, Bool(TRUE)},
   onSanitize : {Absent, Function},
   fields : {Absent, Arr(<<>>), Arr(<<"body">>), Arr(<<"headers">>),
             Arr(<<"query", "params">>)}]

InitRequest ==
  /\ \E body \in Bodies, params \in ParamsOf, headers \in HeadersOf, url \in Urls :
       LET b == Alloc(<<>>, body)
           p == Alloc(b.h, params)
           hd == Alloc(p.h, headers)
       IN /\ heap = hd.h
          /\ req = [url |-> url, body |-> b.v, params |-> p.v, headers |-> hd.v,
                    query |-> Undefined,
                    sanitizedBody |-> Absent, sanitizedQuery |-> Absent,
                    sanitizedParams |-> Absent, sanitizedHeaders |-> Absent]
  /\ base = Len(heap)
  /\ obj = None
  /\ call = NoCall
  /\ arg = None
  /\ ret = None
  /\ prev = None
  /\ log = <<>>
  /\ before = None
  /\ pc = "idle"
  /\ lastIndex = Loaded

\* the originals and the sanitized fields of the request, as trees
Snapshot(h, r) ==
  [body |-> Deref(h, r.body), params |-> Deref(h, r.params),
   headers |-> Deref(h, r.headers), query |-> Deref(h, r.query), url |-> r.url,
   sanitizedBody |-> r.sanitizedBody, sanitizedQuery |-> r.sanitizedQuery,
   sanitizedParams |-> r.sanitizedParams, sanitizedHeaders |-> r.sanitizedHeaders]

\* the running middleware's view of the heap, the request and the log
Running == [heap |-> heap, req |-> req, log |-> log]

\* a block has run: the request and the log are as it left them, and what it
\* allocated and nothing holds any more is let go
Ran(st, after) ==
  /\ heap' = SubSeq(st.heap, 1, base)
  /\ req' = st.req
  /\ log' = st.log
  /\ pc' = after
  /\ UNCHANGED <<base, obj, call, arg, ret, prev, before, lastIndex>>

\* a middleware made by expressSanitize(options) is entered on the request
EnterMiddleware ==
  \E options \in MiddlewareOptions :
    /\ pc \in {"idle", "done"}
    /\ call' = [fn |-> "middleware", options |-> options]
    /\ before' = Snapshot(heap, req)
    /\ req' = initFields(req)
    /\ log' = <<>>
    /\ pc' = "query"
    /\ UNCHANGED <<heap, base, obj, arg, ret, prev, lastIndex>>

QueryBlock == pc = "query" /\ Ran(queryStep(Running, call.options), "params")

ParamsBlock == pc = "params" /\ Ran(paramsStep(Running, call.options), "body")

BodyBlock == pc = "body" /\ Ran(bodyStep(Running, call.options), "headers")

HeadersBlock == pc = "headers" /\ Ran(headersStep(Running, call.options), "next")

CallNext == pc = "next" /\ Ran(nextStep(Running), "done")

NextRequest ==
  EnterMiddleware \/ QueryBlock \/ ParamsBlock \/ BodyBlock \/ HeadersBlock \/ CallNext

SpecRequest == InitRequest /\ [][NextRequest]_vars

-----------------------------------------------------------------------------
(* The claims on the middleware *)

RequestFields == {"query", "params", "body", "headers"}

SanitizedField(key) ==
  CASE key = "query" -> "sanitizedQuery"
    [] key = "params" -> "sanitizedParams"
    [] key = "body" -> "sanitizedBody"
    [] key = "headers" -> "sanitizedHeaders"

\* the positions in the log of the calls of onSanitize with a key
OnSanitizeCalls(key) ==
  {i \in 1..Len(log) : log[i].ev = "onSanitize" /\ log[i].key = key}

NextCalls == {i \in 1..Len(log) : log[i].ev = "next"}

\* the run passed the field to the engine
Processed(key) == \E i \in 1..Len(log) : log[i].ev = "_sanitize" /\ log[i].key = key

\* the run passed the field to the engine, which reported it modified
Modified(key) ==
  \E i \in 1..Len(log) :
    log[i].ev = "_sanitize" /\ log[i].key = key /\ log[i].isSanitized

\* C9: in one run of a middleware that has an onSanitize callback, onSanitize
\* is called exactly once with a field's key if the field was processed and
\* the engine reported it modified, and not at all otherwise; every such call
\* comes before next(), and next() is called exactly once.
C9_OnSanitizeOncePerModifiedField ==
  pc = "done" =>
    /\ \A key \in RequestFields :
         Cardinality(OnSanitizeCalls(key)) =
           IF call.options.onSanitize = Function /\ Modified(key) THEN 1 ELSE 0
    /\ Cardinality(NextCalls) = 1
    /\ \A key \in RequestFields : \A i \in OnSanitizeCalls(key) : \A j \in NextCalls : i < j

\* a run with a callback in which one field was reported modified and
\* another was processed and reported clean
C9_Witness ==
  /\ pc = "done"
  /\ call.options.onSanitize = Function
  /\ \E key \in RequestFields : Modified(key) /\ Cardinality(OnSanitizeCalls(key)) = 1
  /\ \E key \in RequestFields :
       Processed(key) /\ ~Modified(key) /\ OnSanitizeCalls(key) = {}
  /\ Cardinality(NextCalls) = 1

\* the run left the originals of the request as they were
OriginalsKept ==
  /\ Deref(heap, req.body) = before.body
  /\ Deref(heap, req.query) = before.query
  /\ Deref(heap, req.params) = before.params
  /\ Deref(heap, req.headers) = before.headers
  /\ req.url = before.url

SanitizedDefined ==
  \A key \in RequestFields : req[SanitizedField(key)] \notin {Absent, Undefined}

\* C10: after each invocation of the middleware, a first one or a repeated
\* one, the originals are not overwritten, each sanitized field is defined,
\* and the sanitized field of every field that was absent or not processed by
\* this invocation is an empty container.
C10_UnprocessedIsEmpty ==
  pc = "done" =>
    /\ OriginalsKept
    /\ SanitizedDefined
    /\ \A key \in RequestFields :
         ~Processed(key) => req[SanitizedField(key)] = Obj(<<>>)

\* C10, amended: after each invocation the originals are not overwritten,
\* each sanitized field is defined, and the sanitized field of every field
\* that was absent or not processed by this invocation is an empty container
\* if it was not set when the invocation began, and otherwise holds the value
\* it held when the invocation began.
C10_UnprocessedIsEmptyOrKept ==
  pc = "done" =>
    /\ OriginalsKept
    /\ SanitizedDefined
    /\ \A key \in RequestFields :
         ~Processed(key) =>
           req[SanitizedField(key)] =
             IF before[SanitizedField(key)] = Absent THEN Obj(<<>>)
             ELSE before[SanitizedField(key)]

\* a repeated invocation that processed the headers and not the body, on a
\* request whose sanitizedBody an earlier invocation had filled
C10_Witness ==
  /\ pc = "done"
  /\ before.sanitizedBody \notin {Absent, Obj(<<>>)}
  /\ ~Processed("body")
  /\ Processed("headers")
  /\ req.sanitizedBody = before.sanitizedBody
  /\ OriginalsKept

====
